---- MODULE Spec2Model ----
(***************************************************************************)
(* Model of fscli's FileSystem introspection engine                        *)
(* (src/fscli/file_system.py): the space probe get_drive_space, the        *)
(* partition enumerator get_disk_partitions (mount-table strategy and      *)
(* drive-bitmask strategy) and the statistics collector                    *)
(* get_filesystem_stats.  Each call is one action; what the operating      *)
(* system answers (the output of `mount`, the disk-usage primitive,        *)
(* statvfs, the drive queries) is chosen in the initial state and read by  *)
(* the calls.  SpecMount, SpecDrives, SpecSpace and SpecStats are the      *)
(* specifications of the four groups of calls; SpecEnum joins the first    *)
(* two.  The permission decoder get_file_permissions (SpecPerms), the two  *)
(* size formatters (SpecSize) and the hasher get_file_hash (SpecHash) are  *)
(* modelled the same way, on what os.stat reports, on the value to format  *)
(* and on what is found at the hashed paths.                               *)
(* SpecRace runs one get_file_hash call read by read beside a process      *)
(* that rewrites the file (SpecRaceFair adds that the reader keeps         *)
(* running); SpecDirs runs change_directory on two FileSystem objects of   *)
(* one process; SpecList runs list_all and then print_list on its result.  *)
(*                                                                         *)
(* Text is modelled as a sequence of one-character strings, so that        *)
(* str.split, str.splitlines, str.strip and str.startswith are computed    *)
(* and not assumed.  A Python dict is a function from its keys; the empty  *)
(* dict is the function with the empty domain.  A float holding a value    *)
(* rounded to two decimals is kept as an integer number of hundredths.     *)
(***************************************************************************)
EXTENDS Integers, Sequences, FiniteSets, TLC

VARIABLES
    os_type,        \* self.os_type: platform.system().lower()
    mount_cmd,      \* what `mount` does: MountFails, or the text it prints
    du,             \* what shutil.disk_usage does for each path
    enum,           \* all_partitions flag -> outcome of get_disk_partitions
    has_statvfs,    \* hasattr(os, 'statvfs')
    vfs,            \* what os.statvfs does for the queried path
    fs_stats,       \* outcome of get_filesystem_stats(StatPath)
    space,          \* path -> outcome of get_drive_space(path)
    drive_mask,     \* what kernel32.GetLogicalDrives() returns
    drives,         \* drive -> what GetDriveTypeW, `vol` and `fsutil` do for it
    st,             \* what os.stat does for the path whose permissions are read
    perms,          \* outcome of get_file_permissions(PermPath)
    size_arg,       \* the value handed to the size formatters
    size_text,      \* formatter -> outcome of its call on size_arg
    files,          \* path -> what is found at the path, for the hasher
    hash_type,      \* the hash_type argument of get_file_hash
    digest,         \* path -> outcome of get_file_hash(path, hash_type)
    hashing,        \* the call of get_file_hash that is under way, read by read
    modified,       \* how often another process has rewritten a hashed file
    cwd,            \* the working directory of the process: os.getcwd()
    current_dir,    \* FileSystem instance -> its self.current_dir
    chdir_ret,      \* the last call of change_directory and what it returned
    listing,        \* what os.listdir and os.stat find in the listed directory
    items,          \* outcome of list_all(ListPath, include_details=True)
    rows            \* outcome of print_list(title, items, detailed=True)

\* The machine the calls run on, and what the calls made so far returned.
disk_env == <<os_type, mount_cmd, du, has_statvfs, vfs, drive_mask, drives>>
env == <<disk_env, st, size_arg, files, hash_type>>
\* The hash call read by read, the directories and the listing.
more == <<hashing, modified, cwd, current_dir, chdir_ret, listing, items, rows>>
\* The outcomes of the calls on files and sizes.
file_calls == <<perms, size_text, digest>>
\* The outcomes of the calls on volumes.
disk_calls == <<enum, fs_stats, space>>
vars == <<env, disk_calls, file_calls, more>>

\* ---------------------------------------------------------------- bounds
\* Longest mount table, in lines.
MaxLines == 2
\* Largest byte count the disk-usage primitive reports.
MaxTotal == 4
\* Largest block size and fragment size statvfs reports.
MaxBlockSize == 2
\* Largest number of blocks statvfs reports.
MaxBlocks == 2
\* Largest number of inodes statvfs reports.
MaxInodes == 2
\* Most base-1024 digits of a byte count handed to a size formatter.
MaxDigits == 7
\* Longest file hashed, in bytes.
MaxFileLen == 4
\* Most bytes one read of the hasher returns: 4096 in the code, scaled down.
ChunkSize == 2
\* Most rewritings of a file by another process.
MaxWrites == 1
\* Most items of a listed directory.
MaxItems == 3

\* ------------------------------------------------------------------ text
SP == " "
NL == "\n"
Whitespace == {" ", "\t", "\n"}

RECURSIVE Cat(_)
\* Concatenation of a sequence of texts.
Cat(ss) == IF ss = <<>> THEN <<>> ELSE Head(ss) \o Cat(Tail(ss))

RECURSIVE Words(_)
\* The texts of ws written on one line, a single space between them.
Words(ws) ==
    IF ws = <<>> THEN <<>>
    ELSE IF Len(ws) = 1 THEN ws[1]
    ELSE ws[1] \o <<SP>> \o Words(Tail(ws))

RECURSIVE FirstIn(_, _, _)
\* The first position from i on whose character is in chars; Len(s) + 1 if none.
FirstIn(s, i, chars) ==
    IF i > Len(s) \/ s[i] \in chars THEN i ELSE FirstIn(s, i + 1, chars)

RECURSIVE FirstNotIn(_, _, _)
\* The first position from i on whose character is not in chars.
FirstNotIn(s, i, chars) ==
    IF i > Len(s) \/ s[i] \notin chars THEN i ELSE FirstNotIn(s, i + 1, chars)

RECURSIVE SplitFrom(_, _)
SplitFrom(s, i) ==
    LET b == FirstNotIn(s, i, Whitespace)
        e == FirstIn(s, b, Whitespace)
    IN  IF b > Len(s) THEN <<>>
        ELSE <<SubSeq(s, b, e - 1)>> \o SplitFrom(s, e)

\* line.split(): the maximal runs of non-whitespace characters, in order.
split(s) == SplitFrom(s, 1)

RECURSIVE SplitLinesFrom(_, _)
SplitLinesFrom(s, i) ==
    LET e == FirstIn(s, i, {NL})
    IN  IF i > Len(s) THEN <<>>
        ELSE <<SubSeq(s, i, e - 1)>> \o SplitLinesFrom(s, e + 1)

\* text.splitlines(): the lines of the text, without their line ends; a final
\* line end opens no further line.
splitlines(s) == SplitLinesFrom(s, 1)

RECURSIVE lstrip(_, _)
lstrip(s, chars) ==
    IF s # <<>> /\ Head(s) \in chars THEN lstrip(Tail(s), chars) ELSE s

RECURSIVE rstrip(_, _)
rstrip(s, chars) ==
    IF s # <<>> /\ s[Len(s)] \in chars
    THEN rstrip(SubSeq(s, 1, Len(s) - 1), chars)
    ELSE s

\* s.strip(chars): every leading and trailing character of chars removed.
strip(s, chars) == rstrip(lstrip(s, chars), chars)

\* s.startswith(prefixes), prefixes a tuple of texts.
startswith(s, prefixes) ==
    \E p \in prefixes : Len(p) <= Len(s) /\ SubSeq(s, 1, Len(p)) = p

\* ----------------------------------------------------------- Python dict
EmptyDict == [k \in {} |-> 0]

\* d.get(key, default)
Get(d, key, default) == IF key \in DOMAIN d THEN d[key] ELSE default

\* ------------------------------------------------------- sample texts
w_sda1 == <<"/", "d", "e", "v", "/", "s", "d", "a", "1">>
w_sdc1 == <<"/", "d", "e", "v", "/", "s", "d", "c", "1">>
w_loop0 == <<"/", "d", "e", "v", "/", "l", "o", "o", "p", "0">>
w_loo == <<"/", "d", "e", "v", "/", "l", "o", "o">>
w_proc == <<"p", "r", "o", "c">>
w_procfs == <<"p", "r", "o", "c", "f", "s">>
w_gvfsd == <<"g", "v", "f", "s", "d">>
w_on == <<"o", "n">>
w_type == <<"t", "y", "p", "e">>
w_root == <<"/">>
w_mnt == <<"/", "m", "n", "t">>
w_ext4 == <<"e", "x", "t", "4">>
w_fuse == <<"f", "u", "s", "e">>
w_rw == <<"(", "r", "w", ")">>
w_rw2 == <<"(", "(", "r", "w", ")", ")">>
w_msdos == <<"(", "m", "s", "d", "o", "s", ",">>
w_local == <<"l", "o", "c", "a", "l", ")">>
w_sysfs == <<"s", "y", "s", "f", "s">>
w_devpts == <<"d", "e", "v", "p", "t", "s">>
w_devtmpfs == <<"d", "e", "v", "t", "m", "p", "f", "s">>
w_tmpfs == <<"t", "m", "p", "f", "s">>
w_none == <<"n", "o", "n", "e">>
w_devloop == <<"/", "d", "e", "v", "/", "l", "o", "o", "p">>
w_udev == <<"u", "d", "e", "v">>

t_volume_in_drive == <<"V", "o", "l", "u", "m", "e", " ", "i", "n", " ", "d", "r", "i", "v", "e">>
t_is == <<"i", "s">>
t_file_system_name == <<"F", "i", "l", "e", " ", "S", "y", "s", "t", "e", "m", " ", "N", "a", "m", "e">>
vol_data == <<" ", "V", "o", "l", "u", "m", "e", " ", "i", "n", " ", "d", "r", "i", "v", "e", " ", "C", " ", "i", "s", " ", "D", "A", "T", "A", "\n", " ", "V", "o", "l", "u", "m", "e", " ", "S", "e", "r", "i", "a", "l", " ", "N", "u", "m", "b", "e", "r", " ", "i", "s", " ", "1", "2", "A", "B", "\n">>
vol_disk == <<" ", "V", "o", "l", "u", "m", "e", " ", "i", "n", " ", "d", "r", "i", "v", "e", " ", "D", " ", "i", "s", " ", "D", "i", "s", "k", "1", "\n">>
vol_nolabel == <<" ", "V", "o", "l", "u", "m", "e", " ", "i", "n", " ", "d", "r", "i", "v", "e", " ", "C", " ", "h", "a", "s", " ", "n", "o", " ", "l", "a", "b", "e", "l", ".", "\n">>
fsutil_ntfs == <<"V", "o", "l", "u", "m", "e", " ", "N", "a", "m", "e", " ", ":", " ", "D", "A", "T", "A", "\n", "F", "i", "l", "e", " ", "S", "y", "s", "t", "e", "m", " ", "N", "a", "m", "e", " ", ":", " ", "N", "T", "F", "S", "\n">>
fsutil_nocolon == <<"F", "i", "l", "e", " ", "S", "y", "s", "t", "e", "m", " ", "N", "a", "m", "e", " ", "N", "T", "F", "S", "\n">>
w_C == <<"C", ":">>
w_D == <<"D", ":">>

\* ------------------------------------------------------------- numbers
DigitChars == <<"0", "1", "2", "3", "4", "5", "6", "7", "8", "9">>

RECURSIVE IntText(_)
\* The decimal digits of a natural number.
IntText(n) ==
    IF n < 10 THEN <<DigitChars[n + 1]>>
    ELSE IntText(n \div 10) \o <<DigitChars[(n % 10) + 1]>>

\* num / den (num >= 0, den > 0) rounded to the nearest integer, a tie going to
\* the even neighbour: the rounding of round() and of the format spec ".2f" on a
\* float that holds the quotient exactly.
RoundHalfEven(num, den) ==
    LET q == num \div den
        r == num % den
    IN  IF 2 * r < den THEN q
        ELSE IF 2 * r > den THEN q + 1
        ELSE IF q % 2 = 0 THEN q ELSE q + 1

\* ----------------------------------------------- _human_readable_size
\* A value handed to a size formatter is None or an int.  An int is kept as its
\* sign and the digits of its magnitude in base 1024, the most significant
\* first and none for 0, so that byte counts of 1024^5 and more can be written.
PyNone == [none |-> TRUE]

RECURSIVE Base1024(_)
Base1024(n) == IF n = 0 THEN <<>> ELSE Base1024(n \div 1024) \o <<n % 1024>>

\* The int n.
PyInt(n) == [none |-> FALSE, neg |-> n < 0, digits |-> Base1024(IF n < 0 THEN -n ELSE n)]

RECURSIVE IntValue(_)
\* The number a sequence of base-1024 digits writes.
IntValue(ds) ==
    IF ds = <<>> THEN 0 ELSE IntValue(SubSeq(ds, 1, Len(ds) - 1)) * 1024 + ds[Len(ds)]

\* The number of bits of a digit d in 1..1023.
BitLength(d) == CHOOSE b \in 1..10 : 2^(b - 1) <= d /\ d < 2^b

RECURSIVE AddLast(_, _)
\* ds with x added to its last digit, the carry running upwards.
AddLast(ds, x) ==
    IF x = 0 THEN ds
    ELSE IF ds = <<>> THEN <<x>>
    ELSE LET t == ds[Len(ds)] + x
         IN  AddLast(SubSeq(ds, 1, Len(ds) - 1), t \div 1024) \o <<t % 1024>>

\* float(size) of line 46 on the magnitude ds: a float keeps 53 significant
\* bits, the bits below them being rounded off, a tie going to the even
\* neighbour.  The result is again an integer.
float53(ds) ==
    LET n == Len(ds)
        L == IF n = 0 THEN 0 ELSE BitLength(ds[1]) + 10 * (n - 1)
    IN  IF L <= 53 THEN ds
        ELSE LET drop  == L - 53
                 j     == drop \div 10
                 s     == drop % 10
                 c     == ds[n - j]
                 unit  == 2^s
                 r1    == c % unit
                 below == SubSeq(ds, n - j + 1, n)
                 zero(t) == \A k \in 1..Len(t) : t[k] = 0
                 cmp   == IF s >= 1
                          THEN IF 2 * r1 > unit THEN 1
                               ELSE IF 2 * r1 < unit THEN -1
                               ELSE IF zero(below) THEN 0 ELSE 1
                          ELSE IF below[1] > 512 THEN 1
                               ELSE IF below[1] < 512 THEN -1
                               ELSE IF zero(Tail(below)) THEN 0 ELSE 1
                 odd   == (c \div unit) % 2 = 1
                 up    == cmp = 1 \/ (cmp = 0 /\ odd)
                 kept  == SubSeq(ds, 1, n - j - 1) \o <<c - r1>>
             IN  (IF up THEN AddLast(kept, unit) ELSE kept) \o [k \in 1..j |-> 0]

units == << <<"B">>, <<"K", "B">>, <<"M", "B">>, <<"G", "B">>, <<"T", "B">>, <<"P", "B">> >>

RECURSIVE ScaleLoop_stops_at_TB(_, _, _)
\* The loop with the last unit left out of reach.
ScaleLoop_stops_at_TB(whole, frac, unit_index) ==
    IF Len(whole) >= 2 /\ unit_index < Len(units) - 2
    THEN ScaleLoop_stops_at_TB(SubSeq(whole, 1, Len(whole) - 1),
                               <<whole[Len(whole)]>> \o frac, unit_index + 1)
    ELSE [whole |-> whole, frac |-> frac, unit_index |-> unit_index]

RECURSIVE ScaleLoop(_, _, _)
\* The while loop of lines 47-49 on a float that is not negative, whole being
\* the digits before the point and frac those after it: the value is at least
\* 1024 when two digits or more stand before the point, and a division by 1024,
\* exact on a float, moves the point one digit to the left.
ScaleLoop(whole, frac, unit_index) ==
    IF Len(whole) >= 2 /\ unit_index < Len(units) - 1
    THEN ScaleLoop(SubSeq(whole, 1, Len(whole) - 1),
                   <<whole[Len(whole)]>> \o frac, unit_index + 1)
    ELSE [whole |-> whole, frac |-> frac, unit_index |-> unit_index]

RECURSIVE TimesFrac(_, _)
\* m times the fraction frac: the part before the point, and that after it.
TimesFrac(frac, m) ==
    IF frac = <<>> THEN [carry |-> 0, digits |-> <<>>]
    ELSE LET rest == TimesFrac(Tail(frac), m)
             t    == Head(frac) * m + rest.carry
         IN  [carry |-> t \div 1024, digits |-> <<t % 1024>> \o rest.digits]

\* f"{x:.2f}" for the float x of sign neg, whole before the point and frac after
\* it: the nearest number of hundredths, a tie going to the even one.
FloatFixed2(neg, whole, frac) ==
    LET p    == TimesFrac(frac, 100)
        r    == p.digits
        zero(t) == \A k \in 1..Len(t) : t[k] = 0
        cmp  == IF r = <<>> \/ r[1] < 512 THEN -1
                ELSE IF r[1] > 512 THEN 1
                ELSE IF zero(Tail(r)) THEN 0 ELSE 1
        up   == cmp = 1 \/ (cmp = 0 /\ p.carry % 2 = 1)
        h    == p.carry + (IF up THEN 1 ELSE 0)
        w    == IntValue(whole) + (IF h = 100 THEN 1 ELSE 0)
        c    == h % 100
    IN  (IF neg THEN <<"-">> ELSE <<>>)
        \o IntText(w) \o <<".">>
        \o <<DigitChars[(c \div 10) + 1], DigitChars[(c % 10) + 1]>>

\* Lines 44-50 on the int size: the float, scaled unless negative, and its unit.
scaled_text(size) ==
    LET f == float53(size.digits)
        s == IF size.neg THEN [whole |-> f, frac |-> <<>>, unit_index |-> 0]
             ELSE ScaleLoop(f, <<>>, 0)
    IN  FloatFixed2(size.neg, s.whole, s.frac) \o <<" ">> \o units[s.unit_index + 1]

\* float(None) of line 46 raises TypeError, which the function lets out.
human_readable_size_raises(size) == size.none

\* _human_readable_size(size) with the default decimal_places = 2, size an int.
human_readable_size(size) ==
    IF size.digits = <<>> THEN <<"0", " ", "B">>
    ELSE scaled_text(size)

\* PrettyPrinter._format_size(size), src/fscli/pretty_print.py lines 90-108:
\* 'N/A' for -1 and for None, and else the same loop, 0 not being set apart.
format_size(size) ==
    IF size.none \/ size = PyInt(-1) THEN <<"N", "/", "A">>
    ELSE scaled_text(size)

\* ------------------------------------------------------- get_drive_space
\* shutil.disk_usage(path) raises OSError, or returns (total, used, free).  On
\* POSIX total = f_blocks * f_frsize, used = (f_blocks - f_bfree) * f_frsize and
\* free = f_bavail * f_frsize, so used <= total and, blocks reserved for the
\* superuser not being free to the caller, used + free <= total.
DiskUsageError == [raises |-> TRUE]

DiskUsageTriples ==
    { [raises |-> FALSE, total |-> t, used |-> u, free |-> f] :
        t \in 0..MaxTotal, u \in 0..MaxTotal, f \in 0..MaxTotal }

DiskUsageOutcomes ==
    {DiskUsageError} \cup { r \in DiskUsageTriples : r.used + r.free <= r.total }

\* The primitive's outcomes the mount tables are enumerated under: a failure, a
\* volume of capacity 0, a volume with one byte reserved (used + free < total),
\* a full volume, and one whose percentage 100 / 32 = 3.125 is a rounding tie.
ProbeSamples ==
    { DiskUsageError,
      [raises |-> FALSE, total |-> 0,  used |-> 0, free |-> 0],
      [raises |-> FALSE, total |-> 3,  used |-> 1, free |-> 1],
      [raises |-> FALSE, total |-> 8,  used |-> 8, free |-> 0],
      [raises |-> FALSE, total |-> 32, used |-> 1, free |-> 31] }

\* The paths the sample mount tables mount on; any other path does not exist.
ProbePaths == {w_root, w_mnt}

\* shutil.disk_usage(path) in the environment usage.
disk_usage(usage, path) ==
    IF path \in DOMAIN usage THEN usage[path] ELSE DiskUsageError

\* round((used / total) * 100, 2), in hundredths of a percent.
used_percent_of(used, total) == RoundHalfEven(used * 10000, total)

\* get_drive_space(path): the dict of lines 333-341, or {} when anything in the
\* try block raised (the primitive itself, or the division by total = 0).
get_drive_space(usage, path) ==
    LET r == disk_usage(usage, path)
    IN  IF r.raises THEN EmptyDict
        ELSE IF r.total = 0 THEN EmptyDict
        ELSE [total         |-> r.total,
              total_human   |-> human_readable_size(PyInt(r.total)),
              used          |-> r.used,
              used_human    |-> human_readable_size(PyInt(r.used)),
              free          |-> r.free,
              free_human    |-> human_readable_size(PyInt(r.free)),
              used_percent  |-> used_percent_of(r.used, r.total)]

\* ------------------------------------------------ the `mount` command
L_root == Words(<<w_sda1, w_on, w_root, w_type, w_ext4, w_rw>>)
L_proc == Words(<<w_proc, w_on, w_mnt, w_type, w_proc, w_rw>>)
L_loop == Words(<<w_loop0, w_on, w_mnt, w_type, w_ext4, w_rw>>)
L_near == Cat(<<w_loo, <<SP, SP>>, w_on, <<"\t">>, w_mnt, <<SP>>, w_type, <<SP>>,
                w_procfs, <<SP>>, w_rw2, <<SP>>>>)
L_short == Words(<<w_gvfsd, w_on, w_mnt, w_fuse>>)
L_five == Words(<<w_sdc1, w_on, w_mnt, w_msdos, w_local>>)

\* Lines `mount` may print: a physical volume, a pseudo filesystem, a loop
\* device, a physical volume whose names only resemble the filtered ones (and
\* whose fields are separated by more than one blank), a line of four fields
\* and a line of five.
MountLines == {L_root, L_proc, L_loop, L_near, L_short, L_five}

MountTables == UNION { [1..n -> MountLines] : n \in 0..MaxLines }

RECURSIVE TextOf(_)
\* The text of a mount table: every line followed by a line end.
TextOf(table) ==
    IF table = <<>> THEN <<>> ELSE Head(table) \o <<NL>> \o TextOf(Tail(table))

\* subprocess.check_output(['mount']) raises (no such command, non-zero exit).
MountFails == [raises |-> TRUE]

MountOutcomes ==
    {MountFails} \cup { [raises |-> FALSE, output |-> TextOf(t)] : t \in MountTables }

\* --------------------------------------------------- get_disk_partitions
pseudo_fstypes == {w_proc, w_sysfs, w_devpts, w_devtmpfs, w_tmpfs}

virtual_prefixes == {w_none, w_devloop, w_udev}

\* Mutant: the device is compared with the three names instead of tested for
\* beginning with one of them.
is_skipped_exact_device(all_partitions, fstype, device) ==
    /\ ~all_partitions
    /\ \/ fstype \in pseudo_fstypes
       \/ device \in virtual_prefixes

\* Mutant: the flag is read the wrong way round.
is_skipped_flag_inverted(all_partitions, fstype, device) ==
    /\ all_partitions
    /\ \/ fstype \in pseudo_fstypes
       \/ startswith(device, virtual_prefixes)

\* The condition of lines 440-443, under which the line is passed over.
is_skipped(all_partitions, fstype, device) ==
    /\ ~all_partitions
    /\ \/ fstype \in pseudo_fstypes
       \/ startswith(device, virtual_prefixes)

\* Mutant: free_space is read from the key of total_space.
part_info_free_from_total(device, mountpoint, fstype, opts, space_info) ==
    [device       |-> device,
     mountpoint   |-> mountpoint,
     fstype       |-> fstype,
     opts         |-> opts,
     total_space  |-> Get(space_info, "total", 0),
     free_space   |-> Get(space_info, "total", 0),
     used_space   |-> Get(space_info, "used", 0),
     used_percent |-> Get(space_info, "used_percent", 0)]

\* The dict of lines 450-459.
part_info(device, mountpoint, fstype, opts, space_info) ==
    [device       |-> device,
     mountpoint   |-> mountpoint,
     fstype       |-> fstype,
     opts         |-> opts,
     total_space  |-> Get(space_info, "total", 0),
     free_space   |-> Get(space_info, "free", 0),
     used_space   |-> Get(space_info, "used", 0),
     used_percent |-> Get(space_info, "used_percent", 0)]

NoError == "none"
IndexError == "list index out of range"
CalledProcessError == "mount failed"

\* Mutant: a line of four fields is taken for a full one.
enough_fields_four(parts) == Len(parts) >= 4

\* The test of line 433.
enough_fields(parts) == Len(parts) >= 5

\* Mutant: the entry is put at the head of the list.
probe_and_prepend(partitions, device, mountpoint, fstype, opts, usage) ==
    <<part_info(device, mountpoint, fstype, opts, get_drive_space(usage, mountpoint))>>
        \o partitions

\* Mutant: the entry is built only from a probe that answered.
probe_and_append_or_drop(partitions, device, mountpoint, fstype, opts, usage) ==
    IF get_drive_space(usage, mountpoint) = EmptyDict
    THEN partitions
    ELSE Append(partitions,
                part_info(device, mountpoint, fstype, opts,
                          get_drive_space(usage, mountpoint)))

\* The try block of lines 447-462: probe the mount point and append the entry.
\* get_drive_space catches what the primitive raises and .get supplies the
\* missing keys, so nothing reaches the handler of line 461.
probe_and_append(partitions, device, mountpoint, fstype, opts, usage) ==
    Append(partitions,
           part_info(device, mountpoint, fstype, opts, get_drive_space(usage, mountpoint)))

RECURSIVE mount_loop(_, _, _, _, _, _)
\* The for loop of lines 431-462 from line i on.  partitions is the list built
\* so far; parsed lists the numbers of the lines whose four fields were read
\* (lines 434-437 ran to their end).  parts[5] on a line of exactly five fields
\* raises IndexError, which leaves the loop.
mount_loop(lines, i, all_partitions, usage, partitions, parsed) ==
    IF i > Len(lines)
    THEN [partitions |-> partitions, parsed |-> parsed, raised |-> NoError]
    ELSE LET parts == split(lines[i])
         IN  IF enough_fields(parts)
             THEN IF Len(parts) < 6
                  THEN [partitions |-> partitions, parsed |-> parsed,
                        raised |-> IndexError]
                  ELSE LET device     == parts[1]
                           mountpoint == parts[3]
                           fstype     == parts[5]
                           opts       == strip(parts[6], {"(", ")"})
                       IN  IF is_skipped(all_partitions, fstype, device)
                           THEN mount_loop(lines, i + 1, all_partitions, usage,
                                           partitions, Append(parsed, i))
                           ELSE mount_loop(lines, i + 1, all_partitions, usage,
                                           probe_and_append(partitions, device, mountpoint,
                                                            fstype, opts, usage),
                                           Append(parsed, i))
             ELSE mount_loop(lines, i + 1, all_partitions, usage, partitions, parsed)

\* The Unix branch, lines 426-464: an exception of check_output or of the loop
\* is caught by the handler of line 463, which prints and keeps the list.
mount_strategy(cmd, usage, all_partitions) ==
    IF cmd.raises
    THEN [called |-> TRUE, partitions |-> <<>>, parsed |-> <<>>,
          caught |-> CalledProcessError]
    ELSE LET r == mount_loop(splitlines(cmd.output), 1, all_partitions, usage, <<>>, <<>>)
         IN  [called |-> TRUE, partitions |-> r.partitions, parsed |-> r.parsed,
              caught |-> r.raised]

\* The Windows branch, lines 361-423.
ascii_uppercase ==
    <<"A", "B", "C", "D", "E", "F", "G", "H", "I", "J", "K", "L", "M",
      "N", "O", "P", "Q", "R", "S", "T", "U", "V", "W", "X", "Y", "Z">>

RECURSIVE drive_scan_unshifted(_, _, _)
\* Mutant: the mask is not shifted, every letter testing its lowest bit.
drive_scan_unshifted(bitmask, i, found) ==
    IF i > Len(ascii_uppercase) THEN found
    ELSE drive_scan_unshifted(bitmask, i + 1,
                              IF bitmask % 2 = 1
                              THEN Append(found, <<ascii_uppercase[i], ":">>)
                              ELSE found)

RECURSIVE drive_scan(_, _, _)
\* Lines 363-366 from letter i on: the letter's drive is listed when the lowest
\* bit of the mask is set, and the mask is shifted right by one.
drive_scan(bitmask, i, found) ==
    IF i > Len(ascii_uppercase) THEN found
    ELSE drive_scan(bitmask \div 2, i + 1,
                    IF bitmask % 2 = 1
                    THEN Append(found, <<ascii_uppercase[i], ":">>)
                    ELSE found)

\* Lines 372-375 and drive_types.get(drive_type, "UNKNOWN") of line 414.
drive_type_name(code) ==
    IF code \in 0..6
    THEN <<"UNKNOWN", "NO_ROOT_DIR", "REMOVABLE", "FIXED", "REMOTE", "CDROM",
           "RAMDISK">>[code + 1]
    ELSE "UNKNOWN"

\* sub in s
Contains(s, sub) ==
    \E i \in 1..(Len(s) - Len(sub) + 1) : SubSeq(s, i, i + Len(sub) - 1) = sub

RECURSIVE split_on(_, _)
\* s.split(sep), sep not empty.
split_on(s, sep) ==
    IF ~Contains(s, sep) THEN <<s>>
    ELSE LET i == CHOOSE n \in 1..(Len(s) - Len(sep) + 1) :
                      /\ SubSeq(s, n, n + Len(sep) - 1) = sep
                      /\ \A m \in 1..(n - 1) : SubSeq(s, m, m + Len(sep) - 1) # sep
         IN  <<SubSeq(s, 1, i - 1)>> \o split_on(SubSeq(s, i + Len(sep), Len(s)), sep)

RECURSIVE vol_scan(_, _, _)
\* Lines 387-389: the label is what follows the first "is" (up to the next one)
\* on a line holding "Volume in drive"; the last such line wins.
vol_scan(lines, i, volume_name) ==
    IF i > Len(lines) THEN volume_name
    ELSE vol_scan(lines, i + 1,
                  IF Contains(lines[i], t_volume_in_drive) /\ Contains(lines[i], t_is)
                  THEN strip(split_on(lines[i], t_is)[2], Whitespace)
                  ELSE volume_name)

RECURSIVE fs_scan(_, _, _)
\* Lines 400-402: the type is what follows the first ":" on a line holding
\* "File System Name"; such a line without ":" raises IndexError at [1], which
\* the bare except of line 403 swallows, leaving the type as it is.
fs_scan(lines, i, fs_type) ==
    IF i > Len(lines) THEN fs_type
    ELSE IF Contains(lines[i], t_file_system_name)
         THEN IF Len(split_on(lines[i], <<":">>)) < 2
              THEN fs_type
              ELSE fs_scan(lines, i + 1, strip(split_on(lines[i], <<":">>)[2], Whitespace))
         ELSE fs_scan(lines, i + 1, fs_type)

\* What the system does for a drive it knows nothing about: no root directory,
\* and both commands fail.
AbsentDrive == [drive_type |-> 1, vol |-> [raises |-> TRUE], fsutil |-> [raises |-> TRUE]]

\* The dict of lines 409-420 for one drive.
drive_info(drive, drv, usage) ==
    LET d           == IF drive \in DOMAIN drv THEN drv[drive] ELSE AbsentDrive
        volume_name == IF d.vol.raises THEN <<>>
                       ELSE vol_scan(splitlines(d.vol.output), 1, <<>>)
        fs_type     == IF d.fsutil.raises THEN <<>>
                       ELSE fs_scan(splitlines(d.fsutil.output), 1, <<>>)
        space_info  == get_drive_space(usage, drive)
    IN  [device       |-> drive,
         mountpoint   |-> drive,
         fstype       |-> fs_type,
         opts         |-> <<>>,
         drive_type   |-> drive_type_name(d.drive_type),
         volume_name  |-> volume_name,
         total_space  |-> Get(space_info, "total", 0),
         free_space   |-> Get(space_info, "free", 0),
         used_space   |-> Get(space_info, "used", 0),
         used_percent |-> Get(space_info, "used_percent", 0)]

\* Lines 361-423: one entry for each listed drive, in the order of the list.
bitmask_strategy(bitmask, drv, usage) ==
    LET found == drive_scan(bitmask, 1, <<>>)
    IN  [called     |-> TRUE,
         partitions |-> [k \in 1..Len(found) |-> drive_info(found[k], drv, usage)],
         parsed     |-> found,
         caught     |-> NoError]

\* get_disk_partitions(all_partitions): the list it returns, the lines (or
\* drives) it read and the exception its handler caught, if any.
get_disk_partitions(os, bitmask, drv, cmd, usage, all_partitions) ==
    IF os = "windows"
    THEN bitmask_strategy(bitmask, drv, usage)
    ELSE mount_strategy(cmd, usage, all_partitions)

\* -------------------------------------------------- get_filesystem_stats
\* os.statvfs(path) raises OSError, or returns the counters of the volume.
StatvfsError == [raises |-> TRUE]

StatvfsResults ==
    { [raises |-> FALSE, f_bsize |-> bs, f_frsize |-> fr,
       f_blocks |-> b, f_bfree |-> bf, f_bavail |-> ba,
       f_files |-> n, f_ffree |-> nf, f_favail |-> na,
       f_fsid |-> 7, f_flag |-> 0, f_namemax |-> 255] :
        bs \in 1..MaxBlockSize, fr \in 0..MaxBlockSize,
        b \in 0..MaxBlocks, bf \in 0..MaxBlocks, ba \in 0..MaxBlocks,
        n \in 0..MaxInodes, nf \in 0..MaxInodes, na \in 0..MaxInodes }

\* Free counts do not exceed totals, nor counts available to an unprivileged
\* caller the free ones.
StatvfsOutcomes ==
    {StatvfsError} \cup
    { r \in StatvfsResults :
        /\ r.f_bavail <= r.f_bfree /\ r.f_bfree <= r.f_blocks
        /\ r.f_favail <= r.f_ffree /\ r.f_ffree <= r.f_files }

\* A float computed as part / whole * 100: the quotient it holds.
Ratio(num, den) == [num |-> num, den |-> den]

\* The guarded percentages of lines 506 and 532: 0 when the total is 0.
percent_or_zero(part, whole) ==
    IF whole > 0 THEN Ratio(part * 100, whole) ELSE Ratio(0, 1)

\* Mutant: the nominal block size is taken whatever the fragment size.
fragment_size_is_block_size(stats) == stats.f_bsize

\* Line 490: stats.f_frsize or stats.f_bsize.
fragment_size_of(stats) ==
    IF stats.f_frsize # 0 THEN stats.f_frsize ELSE stats.f_bsize

\* Mutant: the inodes available to an unprivileged caller are subtracted.
used_inodes_from_available(stats) == stats.f_files - stats.f_favail

\* Line 505.
used_inodes_of(stats) == stats.f_files - stats.f_ffree

\* The dict of lines 508-538, stats being what os.statvfs(path) returned.
statvfs_report(stats, path) ==
    LET fragment_size == fragment_size_of(stats)
        total_size    == stats.f_blocks * fragment_size
        free_size     == stats.f_bfree * fragment_size
        avail_size    == stats.f_bavail * fragment_size
        used_inodes   == used_inodes_of(stats)
    IN  [path |-> path,
         filesystem_stats |->
            [block_size              |-> stats.f_bsize,
             fragment_size           |-> fragment_size,
             total_blocks            |-> stats.f_blocks,
             free_blocks             |-> stats.f_bfree,
             available_blocks        |-> stats.f_bavail,
             total_inodes            |-> stats.f_files,
             free_inodes             |-> stats.f_ffree,
             available_inodes        |-> stats.f_favail,
             filesystem_id           |-> stats.f_fsid,
             mount_flags             |-> stats.f_flag,
             maximum_filename_length |-> stats.f_namemax],
         space_usage |->
            [total_size           |-> total_size,
             total_size_human     |-> human_readable_size(PyInt(total_size)),
             free_size            |-> free_size,
             free_size_human      |-> human_readable_size(PyInt(free_size)),
             available_size       |-> avail_size,
             available_size_human |-> human_readable_size(PyInt(avail_size)),
             used_size            |-> total_size - free_size,
             used_size_human      |-> human_readable_size(PyInt(total_size - free_size)),
             usage_percent        |-> percent_or_zero(total_size - free_size, total_size)],
         inode_usage |->
            [used_inodes   |-> used_inodes,
             usage_percent |-> percent_or_zero(used_inodes, stats.f_files)]]

\* Mutant: a platform without statvfs is reported as a failure.
statvfs_fallback_fails(usage, path) == EmptyDict

\* Lines 540-546: without os.statvfs, only what the space probe returns.
statvfs_fallback(usage, path) ==
    [path |-> path, space_usage |-> get_drive_space(usage, path)]

\* get_filesystem_stats(path): an exception of os.statvfs is caught by the
\* handler of line 547, which returns {}.
get_filesystem_stats(statvfs_exists, stats, usage, path) ==
    IF statvfs_exists
    THEN IF stats.raises THEN EmptyDict ELSE statvfs_report(stats, path)
    ELSE statvfs_fallback(usage, path)

\* ---------------------------------------------------- get_file_permissions
\* The constants of the stat module the code tests the mode against.
S_IFMT == 61440
S_IFDIR == 16384
S_IFLNK == 40960
S_IFREG == 32768
S_IFIFO == 4096
S_ISUID == 2048
S_ISGID == 1024
S_ISVTX == 512
S_IRUSR == 256
S_IWUSR == 128
S_IXUSR == 64
S_IRGRP == 32
S_IWGRP == 16
S_IXGRP == 8
S_IROTH == 4
S_IWOTH == 2
S_IXOTH == 1

\* bool(mode & bit), bit a power of two.
BitSet(mode, bit) == (mode \div bit) % 2 = 1

\* stat.S_ISDIR(mode) and stat.S_ISLNK(mode): the file-type bits of the mode,
\* S_IFMT = 0o170000 selecting the bits from 2^12 up.
S_ISDIR(mode) == ((mode \div 4096) % 16) * 4096 = S_IFDIR
S_ISLNK(mode) == ((mode \div 4096) % 16) * 4096 = S_IFLNK

RECURSIVE OctDigits(_)
\* The octal digits of a natural number, without leading zeros.
OctDigits(n) ==
    IF n < 8 THEN <<DigitChars[n + 1]>>
    ELSE OctDigits(n \div 8) \o <<DigitChars[(n % 8) + 1]>>

\* oct(n), n >= 0: the prefix "0o", then the digits.
oct(n) == <<"0", "o">> \o OctDigits(n)

\* os.stat(path) raises OSError (the path does not exist, which
\* os.path.exists reports first, or cannot be read), or returns the mode and
\* the owner of what the path leads to.
StatError == [raises |-> TRUE]

FileTypes == {S_IFREG, S_IFDIR, S_IFLNK, S_IFIFO}

StatResults ==
    { [raises |-> FALSE, st_mode |-> t + b, st_uid |-> 1000, st_gid |-> 100] :
        t \in FileTypes, b \in 0..4095 }

StatOutcomes == {StatError} \cup StatResults

\* Lines 642-647: the file type prefix.
type_prefix(mode) ==
    IF S_ISDIR(mode) THEN <<"d">>
    ELSE IF S_ISLNK(mode) THEN <<"l">>
    ELSE <<"-">>

\* 'r' if mode & bit else '-', and so on.
flag_char(mode, bit, letter) == IF BitSet(mode, bit) THEN letter ELSE "-"

\* The nine characters with the classes of group and of other exchanged.
rwx_other_before_group(mode) ==
    << flag_char(mode, S_IRUSR, "r"), flag_char(mode, S_IWUSR, "w"),
       flag_char(mode, S_IXUSR, "x"),
       flag_char(mode, S_IROTH, "r"), flag_char(mode, S_IWOTH, "w"),
       flag_char(mode, S_IXOTH, "x"),
       flag_char(mode, S_IRGRP, "r"), flag_char(mode, S_IWGRP, "w"),
       flag_char(mode, S_IXGRP, "x") >>

\* Lines 649-662: user, group, other; read, write, execute.
rwx(mode) ==
    << flag_char(mode, S_IRUSR, "r"), flag_char(mode, S_IWUSR, "w"),
       flag_char(mode, S_IXUSR, "x"),
       flag_char(mode, S_IRGRP, "r"), flag_char(mode, S_IWGRP, "w"),
       flag_char(mode, S_IXGRP, "x"),
       flag_char(mode, S_IROTH, "r"), flag_char(mode, S_IWOTH, "w"),
       flag_char(mode, S_IXOTH, "x") >>

\* The special bits, setuid and setgid reported for executables only.
special_bits_of_executables(mode) ==
    [setuid |-> BitSet(mode, S_ISUID) /\ BitSet(mode, S_IXUSR),
     setgid |-> BitSet(mode, S_ISGID) /\ BitSet(mode, S_IXGRP),
     sticky |-> BitSet(mode, S_ISVTX)]

\* Lines 665-669.
special_bits_of(mode) ==
    [setuid |-> BitSet(mode, S_ISUID),
     setgid |-> BitSet(mode, S_ISGID),
     sticky |-> BitSet(mode, S_ISVTX)]

\* Line 636: oct(mode & 0o777).
octal_perm(mode) == oct(mode % 512)

\* get_file_permissions(path), stat being what os.stat does for the path: {}
\* when the path does not exist or os.stat raises, and else the dict of lines
\* 671-678 (path is absolute, so os.path.abspath leaves it as it is).
get_file_permissions(stat, path) ==
    IF stat.raises THEN EmptyDict
    ELSE LET mode == stat.st_mode
         IN  [path         |-> path,
              octal        |-> octal_perm(mode),
              symbolic     |-> type_prefix(mode) \o rwx(mode),
              special_bits |-> special_bits_of(mode),
              owner_id     |-> stat.st_uid,
              group_id     |-> stat.st_gid]

\* ------------------------------------------------------------ get_file_hash
\* Lines 594-598: the keys of hash_funcs.
hash_funcs == {"md5", "sha1", "sha256"}

\* The digests are hashlib's.  md5, sha1 and sha256 are iterated hashes: the
\* object keeps a chaining value, the bytes not yet making a whole block and the
\* number of bytes taken in; update() compresses every block that is complete
\* and hexdigest() compresses the padded rest.  The model keeps that shape with
\* blocks of BlockLen bytes and a chaining value below 4096.
BlockLen == 3

\* hash_funcs[hash_type](): a fresh object.
new_hash(algo) ==
    [h |-> CASE algo = "md5" -> 1 [] algo = "sha1" -> 2 [] OTHER -> 3,
     buf |-> <<>>, n |-> 0]

RECURSIVE compress(_, _)
\* The chaining value after the bytes of block.
compress(h, block) ==
    IF block = <<>> THEN h
    ELSE compress((h * 31 + Head(block) + 7) % 4096, Tail(block))

RECURSIVE absorb(_, _)
\* Compresses the complete blocks at the front of buf.
absorb(h, buf) ==
    IF Len(buf) < BlockLen THEN [h |-> h, buf |-> buf]
    ELSE absorb(compress(h, SubSeq(buf, 1, BlockLen)),
                SubSeq(buf, BlockLen + 1, Len(buf)))

\* hash_obj.update(data)
update(hash_obj, data) ==
    LET a == absorb(hash_obj.h, hash_obj.buf \o data)
    IN  [h |-> a.h, buf |-> a.buf, n |-> hash_obj.n + Len(data)]

HexChars ==
    <<"0", "1", "2", "3", "4", "5", "6", "7", "8", "9", "a", "b", "c", "d", "e", "f">>

\* hash_obj.hexdigest(): the rest, a mark and the length are compressed, and
\* the chaining value is written in hexadecimal.
hexdigest(hash_obj) ==
    LET h == compress(hash_obj.h, hash_obj.buf \o <<2, hash_obj.n % 256>>)
    IN  <<HexChars[(h \div 256) + 1], HexChars[((h \div 16) % 16) + 1],
          HexChars[(h % 16) + 1]>>

\* f.read(4096) at offset pos of a regular file: the bytes up to the end of the
\* file, ChunkSize of them at most.
read(content, pos) ==
    SubSeq(content, pos + 1,
           IF pos + ChunkSize < Len(content) THEN pos + ChunkSize ELSE Len(content))

RECURSIVE read_loop_whole_chunks(_, _, _)
\* The loop stopping at the first chunk that is not a whole one.
read_loop_whole_chunks(content, pos, hash_obj) ==
    LET chunk == read(content, pos)
    IN  IF Len(chunk) < ChunkSize THEN hash_obj
        ELSE read_loop_whole_chunks(content, pos + Len(chunk), update(hash_obj, chunk))

RECURSIVE read_loop(_, _, _)
\* Lines 608-609: for chunk in iter(lambda: f.read(4096), b''): update(chunk).
read_loop(content, pos, hash_obj) ==
    LET chunk == read(content, pos)
    IN  IF chunk = <<>> THEN hash_obj
        ELSE read_loop(content, pos + Len(chunk), update(hash_obj, chunk))

\* What is found at a path: nothing that is a regular file; a regular file that
\* open() or read() fails on; a regular file and its bytes.
NotAFile == [isfile |-> FALSE]
Unreadable == [isfile |-> TRUE, readable |-> FALSE]
Readable(content) == [isfile |-> TRUE, readable |-> TRUE, content |-> content]

Bytes == {0, 1}

Contents == UNION { [1..n -> Bytes] : n \in 0..MaxFileLen }

FileOutcomes == {NotAFile, Unreadable} \cup { Readable(c) : c \in Contents }

\* get_file_hash(path, hash_type), file being what is found at path: the
\* hexadecimal digest, or "" after each of the two messages of lines 591 and
\* 601 and when the handler of line 612 caught the error of open() or read().
get_file_hash(file, algo) ==
    IF ~file.isfile THEN <<>>
    ELSE IF algo \notin hash_funcs THEN <<>>
    ELSE IF ~file.readable THEN <<>>
    ELSE hexdigest(read_loop(file.content, 0, new_hash(algo)))

\* ------------------------------------------- get_file_hash, read by read
\* No call of get_file_hash is under way.
Idle == [pc |-> "idle"]

\* What a read of the call h finds in the file, whose content is now current:
\* the file as it was when the call opened it.
content_read_at_open(h, current) == h.before

\* What a read of the call h finds in the file, whose content is now current:
\* open() of line 606 takes no lock and no copy, so each f.read() of line 608
\* reads the file as it is at that moment.
content_read(h, current) == current

\* Lines 590-606 of get_file_hash(path, hash_type): the two tests, the fresh
\* hash object and open().  before and changes remember what the file held at
\* open() and what it was rewritten to since, and at which offset of the call.
hash_open(file, algo, path) ==
    IF ~file.isfile \/ algo \notin hash_funcs \/ ~file.readable
    THEN [returned |-> TRUE, value |-> <<>>]
    ELSE [returned |-> FALSE,
          call |-> [pc |-> "reading", path |-> path, pos |-> 0,
                    hash_obj |-> new_hash(algo),
                    before |-> file.content, changes |-> <<>>]]

\* One turn of the loop of lines 608-609: the next f.read(4096); an empty chunk
\* ends the loop and line 611 returns the digest, any other chunk is fed to the
\* hash object.
hash_read(h, current) ==
    LET chunk == read(content_read(h, current), h.pos)
    IN  IF chunk = <<>>
        THEN [returned |-> TRUE, value |-> hexdigest(h.hash_obj),
              call |-> [h EXCEPT !.pc = "done"]]
        ELSE [returned |-> FALSE,
              call |-> [h EXCEPT !.pos = h.pos + Len(chunk),
                                 !.hash_obj = update(h.hash_obj, chunk)]]

\* ----------------------------------------------------- change_directory
\* The directories of the machine: three of them, a symbolic link to the
\* third, and a path that leads nowhere.  os.chdir(path) raises OSError for the
\* last; os.getcwd() names the directory itself, not the link that led to it.
d_root == <<"/">>
d_home == <<"/", "h">>
d_tmp == <<"/", "t">>
d_link == <<"/", "l">>
d_none == <<"/", "n">>

Directories == {d_root, d_home, d_tmp}
ChdirPaths == Directories \cup {d_link, d_none}

\* The directory os.chdir(path) enters.
entered(path) == IF path = d_link THEN d_tmp ELSE path

chdir_raises(path) == entered(path) \notin Directories

\* The FileSystem objects of the process.
Instances == {"a", "b"}

\* change_directory(path) of an instance whose current_dir is dir, in a process
\* whose working directory is wd: what it returns, and the two afterwards.
change_directory(wd, dir, path) ==
    IF chdir_raises(path)
    THEN [value |-> FALSE, cwd |-> wd, current_dir |-> dir]
    ELSE [value |-> TRUE, cwd |-> entered(path), current_dir |-> entered(path)]

\* get_current_directory(), lines 551-558.
get_current_directory(wd) == wd

\* ------------------------------------------------- list_all, print_list
\* What os.listdir(path) names and what os.stat and os.path.isfile say of it: a
\* regular file and its size, a folder, or a link that leads nowhere, on which
\* os.stat raises.  The modification time, which nothing here reads, is left
\* out.
EntryKinds ==
    { [isfile |-> TRUE, stat_raises |-> FALSE, st_size |-> n] : n \in {0, 1, 1536} }
    \cup { [isfile |-> FALSE, stat_raises |-> FALSE, st_size |-> 4096],
           [isfile |-> FALSE, stat_raises |-> TRUE, st_size |-> 0] }

EntryName(k) == <<"e", DigitChars[k + 1]>>

Listings ==
    UNION { { [k \in 1..n |-> [name |-> EntryName(k), found |-> f[k]]] :
                f \in [1..n -> EntryKinds] } : n \in 0..MaxItems }

\* Lines 226-231: the dict of one item.
item_info(entry) ==
    [name |-> entry.name,
     type |-> IF entry.found.isfile THEN "file" ELSE "folder",
     size |-> IF entry.found.isfile THEN PyInt(entry.found.st_size) ELSE PyNone]

\* list_all(path, include_details=True), lines 214-242: os.stat raising on one
\* item leaves the loop for the handler of line 240, which returns [].
list_all(entries) ==
    IF \E k \in 1..Len(entries) : entries[k].found.stat_raises
    THEN <<>>
    ELSE [k \in 1..Len(entries) |-> item_info(entries[k])]

\* bool(item.get('size')): None and 0 are false, any other int is true.
truthy(size) == ~size.none /\ size.digits # <<>>

\* text.ljust(width): f"{text:<{width}}".
ljust(text, width) ==
    IF Len(text) >= width THEN text ELSE text \o [k \in 1..(width - Len(text)) |-> " "]

\* max(len(...) for ...) of a sequence of texts that is not empty.
max_len(texts) ==
    CHOOSE m \in { Len(texts[k]) : k \in 1..Len(texts) } :
        \A k \in 1..Len(texts) : Len(texts[k]) <= m

\* Line 80 of pretty_print.py: the size column of one item.
size_column(item) ==
    IF truthy(item.size) THEN format_size(item.size) ELSE <<"N", "/", "A">>

\* print_list(title, items, detailed=True), pretty_print.py lines 60-84: the
\* message for an empty list, or one row for each item, the size column as
\* wide as the widest format_size of line 69.
print_list(its) ==
    IF its = <<>>
    THEN [message |-> "No items found.", rows |-> <<>>]
    ELSE LET max_size == max_len([k \in 1..Len(its) |-> format_size(its[k].size)])
         IN  [message |-> "",
              rows |-> [k \in 1..Len(its) |->
                           [name |-> its[k].name,
                            type |-> its[k].type,
                            size |-> ljust(size_column(its[k]), max_size)]]]

\* ------------------------------------------------------------- the calls
NotCalled == [called |-> FALSE]
Unused == [raises |-> TRUE]
StatPath == w_root

\* A Unix-like system has no drive letters.
NoDrives ==
    /\ drive_mask = 0
    /\ drives = EmptyDict

\* The path whose permissions are read, and the paths that are hashed.
PermPath == <<"/", "a">>
HashPaths == {<<"/", "a">>, <<"/", "b">>}

\* The two size formatters: FileSystem._human_readable_size and
\* PrettyPrinter._format_size.
Formatters == {"_human_readable_size", "_format_size"}

\* No file is looked at and no size is formatted.
NoStat == st = StatError
NoSize == size_arg = PyNone
NoHash ==
    /\ files = EmptyDict
    /\ hash_type = "md5"
NoFiles == NoStat /\ NoSize /\ NoHash

\* No volume is looked at.
NoDisks ==
    /\ os_type = "linux"
    /\ mount_cmd = MountFails
    /\ du = EmptyDict
    /\ has_statvfs = TRUE
    /\ vfs = Unused
    /\ NoDrives

\* No directory is changed and nothing is listed.
NoDirs ==
    /\ cwd = d_root
    /\ current_dir = EmptyDict
    /\ listing = <<>>

InitIdle ==
    /\ enum = [a \in BOOLEAN |-> NotCalled]
    /\ fs_stats = NotCalled
    /\ space = [p \in ProbePaths |-> NotCalled]
    /\ perms = NotCalled
    /\ size_text = [f \in Formatters |-> NotCalled]
    /\ digest = [p \in HashPaths |-> NotCalled]
    /\ hashing = Idle
    /\ modified = 0
    /\ chdir_ret = NotCalled
    /\ items = NotCalled
    /\ rows = NotCalled

InitMount ==
    /\ os_type = "linux"
    /\ mount_cmd \in MountOutcomes
    /\ du \in [ProbePaths -> ProbeSamples]
    /\ has_statvfs = TRUE
    /\ vfs = Unused
    /\ NoDrives
    /\ NoFiles
    /\ NoDirs
    /\ InitIdle

\* A call of get_disk_partitions(all_partitions).
GetDiskPartitions(all_partitions) ==
    /\ enum' = [enum EXCEPT ![all_partitions] =
                    get_disk_partitions(os_type, drive_mask, drives, mount_cmd, du,
                                        all_partitions)]
    /\ UNCHANGED <<env, more, fs_stats, space, file_calls>>

NextMount == \E a \in BOOLEAN : GetDiskPartitions(a)

SpecMount == InitMount /\ [][NextMount]_vars

\* What Windows does for one drive: a fixed NTFS volume with a label; a CD-ROM
\* drive without a disc, for which both commands fail; a removable volume whose
\* label holds "is" and whose fsutil line lacks its colon; a drive of a type
\* outside the table, without label.
DriveSamples ==
    { [drive_type |-> 3, vol |-> [raises |-> FALSE, output |-> vol_data],
       fsutil |-> [raises |-> FALSE, output |-> fsutil_ntfs]],
      [drive_type |-> 5, vol |-> [raises |-> TRUE], fsutil |-> [raises |-> TRUE]],
      [drive_type |-> 2, vol |-> [raises |-> FALSE, output |-> vol_disk],
       fsutil |-> [raises |-> FALSE, output |-> fsutil_nocolon]],
      [drive_type |-> 9, vol |-> [raises |-> FALSE, output |-> vol_nolabel],
       fsutil |-> [raises |-> TRUE]] }

\* Masks GetLogicalDrives may return: no drive; A:; C:; D:; C: and D:; C: and a
\* bit above the 26 letters.
DriveMasks == {0, 1, 4, 8, 12, 67108868}

\* The bitmask strategy, for the drives C: and D: (any other drive is absent).
InitDrives ==
    /\ os_type = "windows"
    /\ drive_mask \in DriveMasks
    /\ drives \in [{w_C, w_D} -> DriveSamples]
    /\ du \in [{w_C, w_D} -> ProbeSamples]
    /\ mount_cmd = MountFails
    /\ has_statvfs = FALSE
    /\ vfs = Unused
    /\ NoFiles
    /\ NoDirs
    /\ InitIdle

SpecDrives == InitDrives /\ [][NextMount]_vars

\* The space probe alone, on every outcome of the primitive for two paths.
InitSpace ==
    /\ os_type = "linux"
    /\ mount_cmd = MountFails
    /\ du \in [ProbePaths -> DiskUsageOutcomes]
    /\ has_statvfs = TRUE
    /\ vfs = Unused
    /\ NoDrives
    /\ NoFiles
    /\ NoDirs
    /\ InitIdle

\* A call of get_drive_space(path).
GetDriveSpace(path) ==
    /\ space' = [space EXCEPT ![path] =
                     [called |-> TRUE, value |-> get_drive_space(du, path)]]
    /\ UNCHANGED <<env, more, enum, fs_stats, file_calls>>

NextSpace == \E p \in ProbePaths : GetDriveSpace(p)

SpecSpace == InitSpace /\ [][NextSpace]_vars

\* The statistics collector: with os.statvfs, on every outcome of it; without,
\* on the sampled outcomes of the disk-usage primitive.
InitStats ==
    /\ os_type \in {"linux", "windows"}
    /\ has_statvfs = (os_type = "linux")
    /\ vfs \in IF has_statvfs THEN StatvfsOutcomes ELSE {Unused}
    /\ du \in [{StatPath} -> ProbeSamples]
    /\ mount_cmd = MountFails
    /\ NoDrives
    /\ NoFiles
    /\ NoDirs
    /\ InitIdle

\* A call of get_filesystem_stats(StatPath).
GetFilesystemStats ==
    /\ fs_stats' = [called |-> TRUE,
                    value |-> get_filesystem_stats(has_statvfs, vfs, du, StatPath)]
    /\ UNCHANGED <<env, more, enum, space, file_calls>>

NextStats == GetFilesystemStats

SpecStats == InitStats /\ [][NextStats]_vars

\* The permission decoder, on every mode of twelve bits of four file types.
InitPerms ==
    /\ st \in StatOutcomes
    /\ NoDisks
    /\ NoSize
    /\ NoHash
    /\ NoDirs
    /\ InitIdle

\* A call of get_file_permissions(PermPath).
GetFilePermissions ==
    /\ perms' = [called |-> TRUE, value |-> get_file_permissions(st, PermPath)]
    /\ UNCHANGED <<env, more, disk_calls, size_text, digest>>

NextPerms == GetFilePermissions

SpecPerms == InitPerms /\ [][NextPerms]_vars

\* The byte counts the formatters are called on: the digits before the last
\* are the least and the largest, so that every power of 1024 is met from
\* below and from above; the last digit also makes ties of the rounding.
TopDigits == {1, 8, 1023}
MidDigits == {0, 1023}
LowDigits == {0, 1, 64, 192, 512, 1023}

Magnitudes ==
    {<<>>} \cup { <<d>> : d \in (TopDigits \cup LowDigits) \ {0} }
    \cup UNION { { <<t>> \o m \o <<l>> :
                     t \in TopDigits, m \in [1..(n - 2) -> MidDigits], l \in LowDigits } :
                 n \in 2..MaxDigits }

NegativeSizes == {-1, -2, -1024, -1536}

SizeValues ==
    {PyNone}
    \cup { [none |-> FALSE, neg |-> FALSE, digits |-> d] : d \in Magnitudes }
    \cup { PyInt(n) : n \in NegativeSizes }

InitSize ==
    /\ size_arg \in SizeValues
    /\ NoDisks
    /\ NoStat
    /\ NoHash
    /\ NoDirs
    /\ InitIdle

\* A call of FileSystem._human_readable_size(size).
HumanReadableSize ==
    /\ size_text' = [size_text EXCEPT !["_human_readable_size"] =
                         IF human_readable_size_raises(size_arg)
                         THEN [called |-> TRUE, raises |-> TRUE]
                         ELSE [called |-> TRUE, raises |-> FALSE,
                               text |-> human_readable_size(size_arg)]]
    /\ UNCHANGED <<env, more, disk_calls, perms, digest>>

\* A call of PrettyPrinter._format_size(size).
FormatSize ==
    /\ size_text' = [size_text EXCEPT !["_format_size"] =
                         [called |-> TRUE, raises |-> FALSE, text |-> format_size(size_arg)]]
    /\ UNCHANGED <<env, more, disk_calls, perms, digest>>

NextSize == HumanReadableSize \/ FormatSize

SpecSize == InitSize /\ [][NextSize]_vars

\* The hasher, on two paths and every content of MaxFileLen bytes at most.
HashTypes == hash_funcs \cup {"crc32"}

InitHash ==
    /\ files \in [HashPaths -> FileOutcomes]
    /\ hash_type \in HashTypes
    /\ NoDisks
    /\ NoStat
    /\ NoSize
    /\ NoDirs
    /\ InitIdle

\* A call of get_file_hash(path, hash_type).
GetFileHash(path) ==
    /\ digest' = [digest EXCEPT ![path] =
                      [called |-> TRUE, value |-> get_file_hash(files[path], hash_type)]]
    /\ UNCHANGED <<env, more, disk_calls, perms, size_text>>

NextHash == \E p \in HashPaths : GetFileHash(p)

SpecHash == InitHash /\ [][NextHash]_vars

\* Both strategies of the enumerator: a Unix-like machine and its mount table,
\* or a Windows machine and its drives.
InitEnum == InitMount \/ InitDrives

SpecEnum == InitEnum /\ [][NextMount]_vars

\* The hasher read by read, on one file that another process rewrites, at most
\* MaxWrites times, at any moment.
RacePath == <<"/", "a">>

InitRace ==
    /\ files \in { [p \in HashPaths |-> IF p = RacePath THEN f ELSE NotAFile] :
                     f \in FileOutcomes }
    /\ hash_type \in {"sha256", "crc32"}
    /\ NoDisks
    /\ NoStat
    /\ NoSize
    /\ NoDirs
    /\ InitIdle

\* get_file_hash(RacePath, hash_type) up to open().
HashOpen ==
    /\ hashing.pc = "idle"
    /\ LET o == hash_open(files[RacePath], hash_type, RacePath)
       IN  IF o.returned
           THEN /\ digest' = [digest EXCEPT ![RacePath] =
                                  [called |-> TRUE, value |-> o.value]]
                /\ UNCHANGED hashing
           ELSE /\ hashing' = o.call
                /\ UNCHANGED digest
    /\ UNCHANGED <<env, disk_calls, perms, size_text, modified, cwd, current_dir,
                   chdir_ret, listing, items, rows>>

\* The next read of the call, and its return after the empty one.
HashRead ==
    /\ hashing.pc = "reading"
    /\ LET o == hash_read(hashing, files[hashing.path].content)
       IN  /\ hashing' = o.call
           /\ IF o.returned
              THEN digest' = [digest EXCEPT ![hashing.path] =
                                  [called |-> TRUE, value |-> o.value]]
              ELSE UNCHANGED digest
    /\ UNCHANGED <<env, disk_calls, perms, size_text, modified, cwd, current_dir,
                   chdir_ret, listing, items, rows>>

\* What the other process writes: ones, fewer than, as many as or more than the
\* bytes the file held, so that it is cut, overwritten or extended.
Rewritings == { [k \in 1..n |-> 1] : n \in 0..MaxFileLen }

\* Another process rewrites the file.
Modify(content) ==
    /\ modified < MaxWrites
    /\ files[RacePath].isfile
    /\ files[RacePath].readable
    /\ content # files[RacePath].content
    /\ modified' = modified + 1
    /\ files' = [files EXCEPT ![RacePath] = Readable(content)]
    /\ hashing' = IF hashing.pc = "reading"
                  THEN [hashing EXCEPT !.changes =
                            Append(hashing.changes, [at |-> hashing.pos, content |-> content])]
                  ELSE hashing
    /\ UNCHANGED <<disk_env, st, size_arg, hash_type, disk_calls, file_calls, cwd,
                   current_dir, chdir_ret, listing, items, rows>>

NextRace == HashOpen \/ HashRead \/ \E c \in Rewritings : Modify(c)

SpecRace == InitRace /\ [][NextRace]_vars

\* The process that hashes keeps running: a call that can read does read.
SpecRaceFair == SpecRace /\ WF_vars(HashRead)

\* The FileSystem objects of one process and its working directory.
InitDirs ==
    /\ cwd \in Directories
    /\ current_dir = EmptyDict
    /\ listing = <<>>
    /\ NoDisks
    /\ NoFiles
    /\ InitIdle

\* FileSystem(): line 28 reads the working directory.
Construct(i) ==
    /\ i \notin DOMAIN current_dir
    /\ current_dir' = [j \in DOMAIN current_dir \cup {i} |->
                          IF j = i THEN cwd ELSE current_dir[j]]
    /\ UNCHANGED <<env, disk_calls, file_calls, hashing, modified, cwd, chdir_ret,
                   listing, items, rows>>

\* A call of change_directory(path) on the instance i.
ChangeDirectory(i, path) ==
    /\ i \in DOMAIN current_dir
    /\ LET r == change_directory(cwd, current_dir[i], path)
       IN  /\ cwd' = r.cwd
           /\ current_dir' = [current_dir EXCEPT ![i] = r.current_dir]
           /\ chdir_ret' = [called |-> TRUE, instance |-> i, path |-> path,
                            value |-> r.value, cwd_before |-> cwd,
                            dir_before |-> current_dir[i]]
    /\ UNCHANGED <<env, disk_calls, file_calls, hashing, modified, listing, items, rows>>

NextDirs ==
    \/ \E i \in Instances : Construct(i)
    \/ \E i \in Instances, p \in ChdirPaths : ChangeDirectory(i, p)

SpecDirs == InitDirs /\ [][NextDirs]_vars

\* The detailed listing of a directory of MaxItems items at most.
InitList ==
    /\ listing \in Listings
    /\ cwd = d_root
    /\ current_dir = EmptyDict
    /\ NoDisks
    /\ NoFiles
    /\ InitIdle

\* A call of list_all(path, include_details=True).
ListAll ==
    /\ items' = [called |-> TRUE, value |-> list_all(listing)]
    /\ UNCHANGED <<env, disk_calls, file_calls, hashing, modified, cwd, current_dir,
                   chdir_ret, listing, rows>>

\* A call of print_list(title, items, detailed=True) on what list_all returned.
PrintList ==
    /\ items.called
    /\ rows' = [called |-> TRUE, of |-> items.value, value |-> print_list(items.value)]
    /\ UNCHANGED <<env, disk_calls, file_calls, hashing, modified, cwd, current_dir,
                   chdir_ret, listing, items>>

NextList == ListAll \/ PrintList

SpecList == InitList /\ [][NextList]_vars

\* ================================================================ claims
\* The fields of each line of the mount table the calls read.
TableFields ==
    IF mount_cmd.raises THEN <<>>
    ELSE LET lines == splitlines(mount_cmd.output)
         IN  [i \in 1..Len(lines) |-> split(lines[i])]

\* The denylist as the specification words it, on the fields f of a line: the
\* filesystem type is one of the five pseudo filesystems, or the device name
\* begins with one of the three names.
IsVirtual(f) ==
    \/ f[5] \in {w_proc, w_sysfs, w_devpts, w_devtmpfs, w_tmpfs}
    \/ \E n \in 0..Len(f[1]) : SubSeq(f[1], 1, n) \in {w_none, w_devloop, w_udev}

\* A line of fields f is well formed: it has a device, a mount point, a type
\* and options.
WellFormed(f) == Len(f) >= 6

\* Entry e describes the line of fields f.
Describes(e, f) ==
    /\ e.device = f[1]
    /\ e.mountpoint = f[3]
    /\ e.fstype = f[5]

\* The parsed lines of call r (made with flag a) that the filter lets through,
\* F being the fields of the table's lines.
Surviving(F, r, a) ==
    LET passes(i) == a \/ ~IsVirtual(F[i])
    IN  SelectSeq(r.parsed, passes)

\* C1: get_disk_partitions never fails wholesale: every call returns a list
\* and lets no exception out, and no failure tied to one line (a malformed line,
\* a failing probe) keeps a well-formed volume that follows it, and that the
\* filter lets through, out of the result.
C1_NeverFailsWholesale ==
    LET F == TableFields
    IN  \A a \in BOOLEAN :
            enum[a].called =>
                \A j \in 1..Len(F) :
                    (WellFormed(F[j]) /\ (a \/ ~IsVirtual(F[j])))
                        => \E k \in 1..Len(enum[a].partitions) :
                               Describes(enum[a].partitions[k], F[j])

\* C2: without all_partitions, a parsed line is left out of the result exactly
\* when it is on the denylist: the result holds one entry for each parsed line
\* that is not on it, in the order of the lines, and nothing else.
C2_DenylistOnly ==
    enum[FALSE].called =>
        LET F    == TableFields
            kept == Surviving(F, enum[FALSE], FALSE)
            got  == enum[FALSE].partitions
        IN  /\ Len(got) = Len(kept)
            /\ \A k \in 1..Len(kept) : Describes(got[k], F[kept[k]])

\* C2 witness: a call without all_partitions that parsed a line on the denylist
\* and a line whose device and type only resemble the denylisted names.
C2_Witness ==
    /\ enum[FALSE].called
    /\ LET F == TableFields
           P == enum[FALSE].parsed
       IN  \E m, n \in 1..Len(P) :
              /\ IsVirtual(F[P[m]])
              /\ ~IsVirtual(F[P[n]])
              /\ F[P[n]][5] = w_procfs

\* C3: on one mount table and one probe behaviour, every entry of the result
\* without all_partitions is an entry of the result with all_partitions.
C3_AllIsSuperset ==
    (enum[FALSE].called /\ enum[TRUE].called) =>
        \A k \in 1..Len(enum[FALSE].partitions) :
            \E m \in 1..Len(enum[TRUE].partitions) :
                enum[TRUE].partitions[m] = enum[FALSE].partitions[k]

\* C3 witness: both calls made, the filtered result not empty and the
\* unfiltered one strictly longer.
C3_Witness ==
    /\ enum[FALSE].called
    /\ enum[TRUE].called
    /\ Len(enum[FALSE].partitions) >= 1
    /\ Len(enum[TRUE].partitions) > Len(enum[FALSE].partitions)

\* Line text l has the five fields line 433 asks for.
HasFiveFields(l) == Len(split(l)) >= 5

\* The mount table without its lines of fewer than five fields.
WithoutShortLines ==
    [raises |-> FALSE,
     output |-> TextOf(SelectSeq(splitlines(mount_cmd.output), HasFiveFields))]

\* C4: a line of fewer than five fields yields no entry and does not end the
\* parsing: no such line is parsed, and the call returns what it returns on
\* the same table with these lines taken out.
C4_ShortLineSkipped ==
    ~mount_cmd.raises =>
        LET F == TableFields
            T == WithoutShortLines
        IN  \A a \in BOOLEAN :
                enum[a].called =>
                    LET r == get_disk_partitions(os_type, drive_mask, drives, T, du, a)
                    IN  /\ \A n \in 1..Len(enum[a].parsed) :
                               Len(F[enum[a].parsed[n]]) >= 5
                        /\ enum[a].partitions = r.partitions
                        /\ enum[a].caught = r.caught

\* C4 witness: a line of fewer than five fields is followed by a well-formed
\* line, and the call returned an entry for that line.
C4_Witness ==
    LET F == TableFields
    IN  \E a \in BOOLEAN :
            /\ enum[a].called
            /\ \E i, j \in 1..Len(F) :
                  /\ i < j
                  /\ Len(F[i]) < 5
                  /\ WellFormed(F[j])
                  /\ \E k \in 1..Len(enum[a].partitions) :
                         Describes(enum[a].partitions[k], F[j])

\* The disk-usage primitive fails on the mount point of the line of fields f.
ProbeFailsOn(f) ==
    \/ f[3] \notin DOMAIN du
    \/ du[f[3]].raises

\* C5: a failing probe removes no entry: the result holds one entry for each
\* surviving line, and the entry of a line whose probe failed has the line's
\* device, mount point, type and options (parentheses removed) and zero space
\* fields.
C5_ProbeFailureKeepsEntry ==
    LET F == TableFields
    IN  \A a \in BOOLEAN :
            enum[a].called =>
                LET kept == Surviving(F, enum[a], a)
                IN  /\ Len(enum[a].partitions) = Len(kept)
                    /\ \A k \in 1..Len(kept) :
                           ProbeFailsOn(F[kept[k]]) =>
                               LET e == enum[a].partitions[k]
                               IN  /\ Describes(e, F[kept[k]])
                                   /\ e.opts = strip(F[kept[k]][6], {"(", ")"})
                                   /\ e.total_space = 0
                                   /\ e.free_space = 0
                                   /\ e.used_space = 0
                                   /\ e.used_percent = 0

\* C5 witness: a call returned two entries, the probe having failed for the
\* first and answered for the second.
C5_Witness ==
    LET F == TableFields
    IN  \E a \in BOOLEAN :
            /\ enum[a].called
            /\ Len(enum[a].partitions) = 2
            /\ Len(Surviving(F, enum[a], a)) = 2
            /\ ProbeFailsOn(F[Surviving(F, enum[a], a)[1]])
            /\ ~ProbeFailsOn(F[Surviving(F, enum[a], a)[2]])
            /\ enum[a].partitions[1].device = F[Surviving(F, enum[a], a)[1]][1]
            /\ enum[a].partitions[2].total_space > 0

\* The entries the calls made so far returned.
ReturnedEntries ==
    UNION { { enum[a].partitions[k] : k \in 1..Len(enum[a].partitions) } :
            a \in { b \in BOOLEAN : enum[b].called } }

\* C6 as claimed: every returned entry with total_space > 0 has
\* 0 <= used_percent <= 100 and used_space + free_space = total_space.
C6_UsedPlusFreeIsTotal ==
    \A e \in ReturnedEntries :
        e.total_space > 0 =>
            /\ 0 <= e.used_percent
            /\ e.used_percent <= 10000
            /\ e.used_space + e.free_space = e.total_space

\* C6 amended: every returned entry with total_space > 0 has
\* 0 <= used_percent <= 100 and carries the three counters of the disk-usage
\* primitive for its mount point unchanged, so that used_space + free_space
\* never exceeds total_space and equals it exactly when the primitive's own
\* counters add up.
C6_CountersAreTheProbes ==
    \A e \in ReturnedEntries :
        e.total_space > 0 =>
            /\ 0 <= e.used_percent
            /\ e.used_percent <= 10000
            /\ e.mountpoint \in DOMAIN du
            /\ ~du[e.mountpoint].raises
            /\ e.total_space = du[e.mountpoint].total
            /\ e.used_space = du[e.mountpoint].used
            /\ e.free_space = du[e.mountpoint].free
            /\ e.used_space + e.free_space <= e.total_space

\* C6 witness: a returned entry of a volume with reserved space, whose used
\* and free bytes add up to less than its total.
C6_Witness ==
    \E e \in ReturnedEntries :
        /\ e.total_space > 0
        /\ e.used_percent > 0
        /\ e.used_space + e.free_space < e.total_space

\* C7: what get_drive_space returns for a path on a volume of capacity 0 differs
\* from what it returns for a path on which the disk-usage primitive failed.
C7_ZeroCapacityIsNotFailure ==
    \A p, q \in ProbePaths :
        ( /\ space[p].called
          /\ space[q].called
          /\ du[p].raises
          /\ ~du[q].raises
          /\ du[q].total = 0 )
            => space[p].value # space[q].value

\* The raw counters the collector read.
StatvfsAnswered == has_statvfs /\ ~vfs.raises

\* C8: for every statvfs sample, used_inodes = total_inodes - free_inodes, and
\* with total_inodes = 0 the call still returns its report, whose inode
\* usage_percent is 0.
C8_InodeUsage ==
    (fs_stats.called /\ StatvfsAnswered) =>
        /\ DOMAIN fs_stats.value
               = {"path", "filesystem_stats", "space_usage", "inode_usage"}
        /\ fs_stats.value.inode_usage.used_inodes = vfs.f_files - vfs.f_ffree
        /\ fs_stats.value.filesystem_stats.total_inodes = vfs.f_files
        /\ fs_stats.value.filesystem_stats.free_inodes = vfs.f_ffree
        /\ fs_stats.value.inode_usage.usage_percent.den > 0
        /\ vfs.f_files = 0 => fs_stats.value.inode_usage.usage_percent.num = 0
        /\ vfs.f_files > 0 =>
               /\ fs_stats.value.inode_usage.usage_percent.num
                      = (vfs.f_files - vfs.f_ffree) * 100
               /\ fs_stats.value.inode_usage.usage_percent.den = vfs.f_files

\* C8 witness: the call returned its report on a volume without inodes.
C8_Witness ==
    /\ fs_stats.called
    /\ StatvfsAnswered
    /\ vfs.f_files = 0
    /\ "inode_usage" \in DOMAIN fs_stats.value

\* C8 second case, reached as well: inodes in use, some of the free ones
\* withheld from unprivileged callers.
C8_WitnessInUse ==
    /\ fs_stats.called
    /\ StatvfsAnswered
    /\ vfs.f_files > vfs.f_ffree
    /\ vfs.f_ffree > vfs.f_favail
    /\ fs_stats.value.inode_usage.used_inodes > 0

\* C9: the byte sizes are the block counts times the fragment size, which is
\* the reported fragment size when that is not 0 and the block size otherwise;
\* used_size = total_size - free_size; usage_percent is 0 when total_size is 0.
C9_SizesFromFragmentSize ==
    (fs_stats.called /\ StatvfsAnswered) =>
        LET frag == IF vfs.f_frsize = 0 THEN vfs.f_bsize ELSE vfs.f_frsize
            u    == fs_stats.value.space_usage
        IN  /\ fs_stats.value.filesystem_stats.fragment_size = frag
            /\ u.total_size = vfs.f_blocks * frag
            /\ u.free_size = vfs.f_bfree * frag
            /\ u.available_size = vfs.f_bavail * frag
            /\ u.used_size = u.total_size - u.free_size
            /\ u.total_size = 0 => u.usage_percent.num = 0
            /\ u.usage_percent.den > 0

\* C9 witness: a report on a volume whose fragment size is neither 0 nor the
\* block size, with blocks in use.
C9_Witness ==
    /\ fs_stats.called
    /\ StatvfsAnswered
    /\ vfs.f_frsize # 0
    /\ vfs.f_frsize # vfs.f_bsize
    /\ vfs.f_blocks > vfs.f_bfree
    /\ fs_stats.value.space_usage.used_size > 0

\* C9 second case, reached as well: no fragment size reported, so the block
\* size stands in, and the volume has no blocks.
C9_WitnessFallback ==
    /\ fs_stats.called
    /\ StatvfsAnswered
    /\ vfs.f_frsize = 0
    /\ vfs.f_bsize > 1
    /\ vfs.f_blocks = 0
    /\ fs_stats.value.space_usage.total_size = 0

\* C10: without os.statvfs the call does not fail: its result has the path
\* and a space_usage section, no block or inode section, and space_usage is
\* what the space probe returned, with the primitive's total, used and free
\* when the probe answered.
C10_DegradedMode ==
    (fs_stats.called /\ ~has_statvfs) =>
        /\ DOMAIN fs_stats.value = {"path", "space_usage"}
        /\ (~du[StatPath].raises /\ du[StatPath].total > 0) =>
               /\ fs_stats.value.space_usage.total = du[StatPath].total
               /\ fs_stats.value.space_usage.used = du[StatPath].used
               /\ fs_stats.value.space_usage.free = du[StatPath].free
        /\ du[StatPath].raises => fs_stats.value.space_usage = EmptyDict

\* C10 witness: a call on a platform without os.statvfs whose probe answered.
C10_Witness ==
    /\ fs_stats.called
    /\ ~has_statvfs
    /\ ~du[StatPath].raises
    /\ "space_usage" \in DOMAIN fs_stats.value
    /\ "total" \in DOMAIN fs_stats.value.space_usage
    /\ fs_stats.value.space_usage.total > 0

\* get_file_permissions was called on a path os.stat answered for.
PermsAnswered == perms.called /\ ~st.raises

\* st with the twelve low bits of its mode replaced by bits.
WithLowBits(bits) ==
    [st EXCEPT !.st_mode = (st.st_mode \div 4096) * 4096 + bits]

\* C11: for every mode, the symbolic string has exactly 10 characters: the type
\* character ('d' for a directory mode, 'l' for a symlink mode, '-' otherwise),
\* then, for user, group and other in this order, 'r', 'w' and 'x' where the
\* corresponding one of the nine low bits is set and '-' where it is clear.
C11_SymbolicString ==
    PermsAnswered =>
        LET m == st.st_mode
            s == perms.value.symbolic
            filetype == (m \div 4096) * 4096
        IN  /\ Len(s) = 10
            /\ s[1] = (IF filetype = S_IFDIR THEN "d"
                       ELSE IF filetype = S_IFLNK THEN "l" ELSE "-")
            /\ \A i \in 1..9 :
                   s[i + 1] = IF (m \div 2^(9 - i)) % 2 = 1
                              THEN <<"r", "w", "x">>[((i - 1) % 3) + 1]
                              ELSE "-"

\* C11 witness: a regular file of mode 0o755 was decoded as '-rwxr-xr-x'.
C11_Witness ==
    /\ PermsAnswered
    /\ st.st_mode = S_IFREG + 493
    /\ perms.value.symbolic = <<"-", "r", "w", "x", "r", "-", "x", "r", "-", "x">>

\* C12: the octal field is the mode masked to its nine low bits and written as
\* exactly three octal digits.
C12_OctalThreeDigits ==
    PermsAnswered =>
        LET p == st.st_mode % 512
        IN  perms.value.octal =
                <<DigitChars[(p \div 64) + 1], DigitChars[((p \div 8) % 8) + 1],
                  DigitChars[(p % 8) + 1]>>

\* C13: the setuid, setgid and sticky flags are the three special bits of the
\* mode, whatever the nine permission bits are, and the symbolic string and the
\* octal string are those of the same mode with any other special bits.
C13_SpecialBitsApart ==
    PermsAnswered =>
        LET m == st.st_mode
            v == perms.value
        IN  /\ v.special_bits.setuid = ((m \div S_ISUID) % 2 = 1)
            /\ v.special_bits.setgid = ((m \div S_ISGID) % 2 = 1)
            /\ v.special_bits.sticky = ((m \div S_ISVTX) % 2 = 1)
            /\ \A low \in {0, 73, 420, 511} :
                   get_file_permissions(WithLowBits((m % 4096) - (m % 512) + low),
                                        PermPath).special_bits = v.special_bits
            /\ \A special \in 0..7 :
                   LET w == get_file_permissions(WithLowBits(special * 512 + (m % 512)),
                                                 PermPath)
                   IN  w.symbolic = v.symbolic /\ w.octal = v.octal

\* C13 witness: a setuid file that its owner cannot execute was decoded, the flag
\* is raised and the string shows '-' for the owner's execute bit.
C13_Witness ==
    /\ PermsAnswered
    /\ st.st_mode = S_IFREG + S_ISUID + 420
    /\ perms.value.special_bits.setuid
    /\ perms.value.symbolic[4] = "-"

\* The outcome of the call of FileSystem._human_readable_size, if it was made.
Rendered == size_text["_human_readable_size"]

\* The position of the first ch in text.
IndexOf(text, ch) == CHOOSE i \in 1..Len(text) : text[i] = ch /\ \A j \in 1..(i - 1) : text[j] # ch

RECURSIVE DecValue(_)
\* The number a sequence of decimal digits writes.
DecValue(chars) ==
    IF chars = <<>> THEN 0
    ELSE DecValue(SubSeq(chars, 1, Len(chars) - 1)) * 10
         + (CHOOSE d \in 0..9 : DigitChars[d + 1] = chars[Len(chars)])

\* The unit a rendered size ends with, and the number before its point.
UnitOf(text) == SubSeq(text, IndexOf(text, " ") + 1, Len(text))
WholeOf(text) == DecValue(SubSeq(text, 1, IndexOf(text, ".") - 1))

\* The k of the claim for a positive byte count of digits ds in base 1024:
\* v / 1024^k < 1024 exactly when ds has k + 1 digits at most.
DivisionsOf(ds) ==
    LET K == { k \in 0..5 : Len(ds) <= k + 1 }
    IN  IF K = {} THEN 5 ELSE CHOOSE k \in K : \A l \in K : k <= l

\* C14: _human_readable_size renders 0 as exactly '0 B'; a positive byte count
\* v is divided by 1024 k times, k the least of 0..5 with v / 1024^k < 1024, or
\* 5 when there is none, and labelled with the k-th of B, KB, MB, GB, TB, PB:
\* the number rendered is v / 1024^k (its whole part, or one more when the
\* rounding carries), and 1024^5 and every larger count is rendered in PB.
C14_UnitOfMagnitude ==
    (Rendered.called /\ ~size_arg.none /\ ~size_arg.neg) =>
        /\ ~Rendered.raises
        /\ IF size_arg.digits = <<>>
           THEN Rendered.text = <<"0", " ", "B">>
           ELSE LET ds == size_arg.digits
                    k  == DivisionsOf(ds)
                    W  == IntValue(SubSeq(ds, 1, Len(ds) - k))
                IN  /\ UnitOf(Rendered.text) = units[k + 1]
                    /\ WholeOf(Rendered.text) \in {W, W + 1}
                    /\ (Len(ds) >= 6 => UnitOf(Rendered.text) = <<"P", "B">>)

\* C14 witness: a count of 1024^6 or more was rendered, in PB, as 1024 of them
\* or more.
C14_Witness ==
    /\ Rendered.called
    /\ ~size_arg.none
    /\ ~size_arg.neg
    /\ Len(size_arg.digits) >= 7
    /\ UnitOf(Rendered.text) = <<"P", "B">>
    /\ WholeOf(Rendered.text) >= 1024

\* C14, second witness: 1536 was rendered as '1.50 KB'.
C14_WitnessKB ==
    /\ Rendered.called
    /\ size_arg = PyInt(1536)
    /\ Rendered.text = <<"1", ".", "5", "0", " ", "K", "B">>

\* C15: each size formatter renders every negative input and the null input as
\* 'N/A', without raising (which also sets it apart from the rendering of 0).
C15_UnknownSizeIsNA ==
    \A f \in Formatters :
        (size_text[f].called /\ (size_arg.none \/ size_arg.neg)) =>
            /\ ~size_text[f].raises
            /\ size_text[f].text = <<"N", "/", "A">>

\* What a call of get_file_hash on file with the algorithm algo meets, in the
\* words of the specification: the three failures, or none.
CauseOf(file, algo) ==
    IF ~file.isfile THEN "NotAFile"
    ELSE IF algo \notin hash_funcs THEN "UnsupportedAlgorithm"
    ELSE IF ~file.readable THEN "IOError"
    ELSE "none"

\* C16: the value get_file_hash returns tells its caller which of NotAFile,
\* UnsupportedAlgorithm and IOError happened, or that none did: two calls that
\* met different ones returned different values.
C16_FailureNamesItsCause ==
    \A p \in HashPaths, q \in HashPaths :
        (/\ digest[p].called
         /\ digest[q].called
         /\ CauseOf(files[p], hash_type) # CauseOf(files[q], hash_type))
            => digest[p].value # digest[q].value

\* C17: the digest of a file that can be read depends on its bytes and the
\* algorithm only: it is the digest of the whole content taken at once, whatever
\* the chunks were, and two paths holding the same bytes get the same digest.
C17_DigestOfContent ==
    \A p \in HashPaths :
        (digest[p].called /\ CauseOf(files[p], hash_type) = "none") =>
            /\ digest[p].value
                   = hexdigest(update(new_hash(hash_type), files[p].content))
            /\ \A q \in HashPaths :
                   (digest[q].called /\ files[q] = files[p])
                       => digest[q].value = digest[p].value

\* C17 witness: both paths hold the same bytes, a whole number of chunks of
\* them, both were hashed and the digests are equal.
C17_Witness ==
    LET a == <<"/", "a">>
        b == <<"/", "b">>
    IN  /\ digest[a].called
        /\ digest[b].called
        /\ CauseOf(files[a], hash_type) = "none"
        /\ files[b] = files[a]
        /\ Len(files[a].content) >= ChunkSize
        /\ Len(files[a].content) % ChunkSize = 0
        /\ digest[a].value = digest[b].value
        /\ digest[a].value # <<>>

\* C17, second witness: an empty file was hashed.
C17_WitnessEmpty ==
    \E p \in HashPaths :
        /\ digest[p].called
        /\ CauseOf(files[p], hash_type) = "none"
        /\ files[p].content = <<>>
        /\ digest[p].value # <<>>

\* The place of a drive's letter in the alphabet.
LetterIndex(drive) == CHOOSE n \in 1..Len(ascii_uppercase) : ascii_uppercase[n] = drive[1]

\* C18: the list get_disk_partitions returns is in the order of discovery: from
\* a mount table, an entry that stands before another describes a line that
\* stands before a line the other describes; from the drive mask, the entries
\* stand in ascending order of their drive letters.
C18_DiscoveryOrder ==
    LET F == TableFields
    IN  \A a \in BOOLEAN :
            enum[a].called =>
                LET P == enum[a].partitions
                IN  \A i \in 1..Len(P), j \in 1..Len(P) :
                        i < j =>
                            IF os_type = "windows"
                            THEN LetterIndex(P[i].device) < LetterIndex(P[j].device)
                            ELSE \E p \in 1..Len(F), q \in 1..Len(F) :
                                     /\ p < q
                                     /\ WellFormed(F[p]) /\ Describes(P[i], F[p])
                                     /\ WellFormed(F[q]) /\ Describes(P[j], F[q])

\* C18 witness: a mount table of two different lines gave two entries, that of
\* the first line first.
C18_Witness ==
    LET F == TableFields
    IN  /\ os_type # "windows"
        /\ \E a \in BOOLEAN :
               /\ enum[a].called
               /\ Len(enum[a].partitions) = 2
               /\ enum[a].partitions[1].device # enum[a].partitions[2].device
               /\ Describes(enum[a].partitions[1], F[1])
               /\ Describes(enum[a].partitions[2], F[2])

\* C18, second witness: the drives C: and D: were listed, C: first.
C18_WitnessDrives ==
    /\ os_type = "windows"
    /\ \E a \in BOOLEAN :
           /\ enum[a].called
           /\ Len(enum[a].partitions) = 2
           /\ enum[a].partitions[1].device = w_C
           /\ enum[a].partitions[2].device = w_D

\* The numbers of the lines a call parsed.
ParsedLines(r) == { r.parsed[n] : n \in 1..Len(r.parsed) }

\* C19: every line of the mount table with at least 5 fields, a line of exactly
\* 5 among them, is parsed and, unless the filter excludes it, has its entry in
\* the result, whatever lines stand before it.
C19_FiveFieldsParsed ==
    LET F == TableFields
    IN  \A a \in BOOLEAN :
            enum[a].called =>
                \A j \in 1..Len(F) :
                    Len(F[j]) >= 5 =>
                        /\ j \in ParsedLines(enum[a])
                        /\ (a \/ ~IsVirtual(F[j]))
                               => \E k \in 1..Len(enum[a].partitions) :
                                      Describes(enum[a].partitions[k], F[j])

\* The drive category of a classifier code, as the specification tables it.
CategoryOf(code) ==
    CASE code = 0 -> "UNKNOWN"
      [] code = 1 -> "NO_ROOT_DIR"
      [] code = 2 -> "REMOVABLE"
      [] code = 3 -> "FIXED"
      [] code = 4 -> "REMOTE"
      [] code = 5 -> "CDROM"
      [] code = 6 -> "RAMDISK"
      [] OTHER -> "UNKNOWN"

\* The letters whose bit is set in the low 26 bits of the mask, numbered from 0.
SetBits == { i \in 0..25 : (drive_mask \div 2^i) % 2 = 1 }

\* C20: from the drive mask, the entries are those of the letters whose bit is
\* set among the low 26 bits, one entry for each, and the drive category of an
\* entry is the table's value for the classifier codes 0..6 and UNKNOWN for any
\* other code.
C20_DrivesOfMask ==
    \A a \in BOOLEAN :
        (enum[a].called /\ os_type = "windows") =>
            LET P == enum[a].partitions
            IN  /\ Len(P) = Cardinality(SetBits)
                /\ \A i \in SetBits :
                       Cardinality({ k \in 1..Len(P) :
                                       P[k].device = <<ascii_uppercase[i + 1], ":">> }) = 1
                /\ \A k \in 1..Len(P) :
                       P[k].drive_type =
                           CategoryOf(IF P[k].device \in DOMAIN drives
                                      THEN drives[P[k].device].drive_type
                                      ELSE AbsentDrive.drive_type)

\* C20 witness: the mask held the bit of C: and a bit above the 26 letters, the
\* classifier gave a code outside the table, and the one entry is that of C:,
\* of category UNKNOWN.
C20_Witness ==
    /\ drive_mask > 2^26
    /\ drives[w_C].drive_type \notin 0..6
    /\ \E a \in BOOLEAN :
           /\ enum[a].called
           /\ Len(enum[a].partitions) = 1
           /\ enum[a].partitions[1].device = w_C
           /\ enum[a].partitions[1].drive_type = "UNKNOWN"

RECURSIVE TornContent(_, _)
\* The bytes a call has been handed: content up to the offset the call had
\* reached when the file was rewritten, and the new content from there on, for
\* each rewriting in turn.
TornContent(content, changes) ==
    IF changes = <<>> THEN content
    ELSE LET c == Head(changes)
         IN  TornContent(SubSeq(content, 1, c.at)
                             \o SubSeq(c.content, c.at + 1, Len(c.content)),
                         Tail(changes))

\* The digest of a content taken at once.
DigestOf(content) == hexdigest(update(new_hash(hash_type), content))

\* A call that has returned has returned the digest of the bytes it was handed.
ReturnedWhatWasRead ==
    hashing.pc = "done" =>
        /\ digest[hashing.path].called
        /\ digest[hashing.path].value # <<>>
        /\ digest[hashing.path].value
               = DigestOf(TornContent(hashing.before, hashing.changes))

\* C21: get_file_hash holds no lock while it reads: a call during which another
\* process rewrites the file comes to its end all the same and returns a
\* digest, and it is the digest of the bytes read before the rewriting followed
\* by the bytes of the new content after them -- which need be neither the old
\* content nor the new.
C21_DigestOfWhatWasRead ==
    /\ []ReturnedWhatWasRead
    /\ (hashing.pc = "reading") ~> (hashing.pc = "done")

\* C21 witness: the file was rewritten once between two reads of a call, the
\* call returned, and its digest is neither that of the content before nor
\* that of the content after.
C21_Witness ==
    /\ hashing.pc = "done"
    /\ Len(hashing.changes) = 1
    /\ hashing.changes[1].at > 0
    /\ digest[hashing.path].value # DigestOf(hashing.before)
    /\ digest[hashing.path].value # DigestOf(hashing.changes[1].content)

\* C22: each instance's current_dir is the working directory of the process;
\* a change_directory that succeeded has set both to the directory entered, and
\* one that failed returned False and left both as they were.
C22_CurrentDirIsCwd ==
    /\ \A i \in DOMAIN current_dir : current_dir[i] = get_current_directory(cwd)
    /\ chdir_ret.called =>
           IF chdir_ret.value
           THEN current_dir[chdir_ret.instance] = entered(chdir_ret.path)
           ELSE /\ chdir_raises(chdir_ret.path)
                /\ current_dir[chdir_ret.instance] = chdir_ret.dir_before

\* C23: in the detailed listing the size column shows 'N/A' for exactly the
\* items whose size is unknown (None, the folders): a file of size 0 is shown
\* with a size.
C23_NAOnlyForUnknown ==
    rows.called =>
        \A k \in 1..Len(rows.value.rows) :
            (strip(rows.value.rows[k].size, {" "}) = <<"N", "/", "A">>)
                <=> rows.of[k].size.none

====
